---- MODULE Spec2Model ----
(***************************************************************************)
(* rustbuster: the driver of src/main.rs (argument handling, startup       *)
(* validation, the consumer loops of the dir, dns and vhost modes, the     *)
(* run end) together with the producer thread it spawns.  The producer     *)
(* (dirbuster::run, dnsbuster::run, vhostbuster::run) and the result       *)
(* processors (maybe_add_result) live in modules that main.rs only         *)
(* declares; they are modelled from the specification.  So is the fuzz     *)
(* mode, which main.rs hands over whole to fuzzbuster::FuzzBuster::run.    *)
(***************************************************************************)
EXTENDS Naturals, Integers, Sequences, FiniteSets, TLC

VARIABLES
    cfg,                        \* the command line and the files it names
    pc,                         \* position of main
    exit_status,                \* process exit status, -1 while running
    logged,                     \* kinds of error!/warn! messages emitted
    warned,                     \* the status-code tokens warned about, in order
    banner_printed,             \* the lines of the banner block (197-212) printed
    current_numbers_of_request, \* main's request counter
    seconds,                    \* whole seconds elapsed since start_time
    bar_pos, bar_msg,           \* the progress bar: position and label
    last_msg,                   \* loop local msg: the outcome last received
    was_added,                  \* loop local: maybe_add_result's last answer
    evaluated,                  \* the last outcome was handed to the acceptance step
    received,                   \* number of Ok(msg) results of rx.recv()
    arrivals,                   \* the outcomes received, in the order received
    csrf_token,                 \* fuzz: the captured CSRF token, "none" before
    csrf_fetches,               \* fuzz: GET requests made to the CSRF url
    probe_tokens,               \* fuzz: the tokens the pulled probes carried
    results,                    \* result_processor.results
    printed,                    \* result lines printed, in order
    dns_names,                  \* dns: the names on the OK lines, in order
    saved,                      \* what the save_*_results calls were given
    loop_exit,                  \* which way the consumer loop was left
    pending_at_stop,            \* candidates in flight when the loop broke on an error
    tx,                         \* the producer's Sender: none, open, closed
    next_idx,                   \* producer: index of the next candidate to pull
    inflight,                   \* producer: candidates being probed
    chan                        \* outcomes sent and not yet received

vars == << cfg, csrf_token, csrf_fetches, probe_tokens, pc, exit_status, logged, warned, banner_printed,
           current_numbers_of_request, seconds, bar_pos, bar_msg, last_msg,
           was_added, evaluated, received, arrivals, results, printed, dns_names, saved,
           loop_exit, pending_at_stop, tx, next_idx, inflight, chan >>

\* ------------------------------------------------------------------ bounds
MaxCandidates == 3
MaxThreads == 2
MaxSec == 2

\* ------------------------------------------------------------- helpers
Range(s) == { s[i] : i \in DOMAIN s }

NoMsg == [id |-> 0, target |-> 0, error |-> FALSE, status |-> "", ignored |-> FALSE]

\* --------------------------------------------------- command-line inputs
\* The modes whose consumer loop is in main.
Modes == {"dir", "dns", "vhost"}

\* A URL argument, by what hyper::Uri parsing makes of it.
Urls == {"unparsable", "noscheme", "ftp", "http", "https"}

UriParses(u) == u # "unparsable"

SchemePart(u) == IF u = "noscheme" THEN "none" ELSE u

\* One flag per supplied wordlist path: does std::fs::metadata succeed.
WordlistSets == { <<TRUE>>, <<FALSE>>, <<TRUE, FALSE>>, <<FALSE, TRUE>>, <<TRUE, TRUE>> }

\* Values of -s / -S after clap split them on the delimiter.
IncludeArgs == { <<"">>, <<"200">>, <<"404">>, <<"200", "abc">> }
IgnoreArgs == { <<"404">>, <<"200">>, <<"">>, <<"abc", "404">> }

\* Lists with tokens that are no status code: letters, two digits, four
\* digits, and an empty token between commas.
TokenLists ==
    { <<"200", "abc", "404">>, <<"abc">>, <<"404", "", "99", "200">>,
      <<"1000", "abc">> }

\* hyper::StatusCode::from_str of the tokens used here: three digits, the
\* first of them 1 to 5.
ValidStatusCode(s) == s \in {"200", "404"}

\* terminal_size(): the columns below which the banner and the progress bar
\* are turned off.
MinColsBanner == 122
MinColsProgressBar == 104

\* What terminal_size() gives: nothing when the output is no terminal, or the
\* columns and lines of the terminal.
NoTerminal == [some |-> FALSE, cols |-> 0, lines |-> 0]

Terminals ==
    {NoTerminal}
    \cup { [some |-> TRUE, cols |-> w, lines |-> 50] : w \in {80, 103, 104, 121, 122} }

\* The command line the enumerated ones vary: a valid one, with -d and -x given,
\* on a terminal wide enough for the banner.
\* The default of -t.
DefaultThreads == 10

BaseArgs ==
    [ mode |-> "dir", url |-> "http", wordlist_paths |-> <<TRUE>>,
      domain |-> TRUE, ignore_strings |-> TRUE, include_strings |-> FALSE,
      exit_on_connection_errors |-> FALSE, n_threads |-> DefaultThreads,
      include_raw |-> <<"">>, ignore_raw |-> <<"404">>,
      output |-> FALSE, total |-> 1, dup |-> FALSE, csrf_url |-> FALSE,
      no_banner |-> FALSE, no_progress_bar |-> FALSE,
      terminal |-> [some |-> TRUE, cols |-> 122, lines |-> 50],
      domain_name |-> <<"e", "x", ".", "i", "o">> ]

\* Command lines that differ in what the startup checks read.
StartupArgs ==
    { [BaseArgs EXCEPT !.mode = m, !.url = u, !.wordlist_paths = w,
                          !.domain = d, !.ignore_strings = x, !.include_strings = i] :
        m \in Modes, u \in Urls, w \in WordlistSets,
        d \in BOOLEAN, x \in BOOLEAN, i \in BOOLEAN }

\* Command lines that pass the startup checks and differ in what the run
\* reads; one thread and the most.
RunArgs ==
    { [BaseArgs EXCEPT !.mode = m, !.exit_on_connection_errors = k,
                          !.n_threads = n, !.total = t] :
        m \in Modes, k \in BOOLEAN, n \in {1, MaxThreads},
        t \in 0..MaxCandidates }

\* Command lines with an output file (-o).
OutputArgs ==
    { [BaseArgs EXCEPT !.mode = m, !.exit_on_connection_errors = k,
                          !.n_threads = 1, !.output = TRUE, !.total = t] :
        m \in Modes, k \in BOOLEAN, t \in 0..MaxCandidates }

\* Command lines whose wordlist holds a word twice.
DupArgs ==
    { [BaseArgs EXCEPT !.mode = m, !.n_threads = n, !.total = t, !.dup = TRUE] :
        m \in Modes, n \in {1, MaxThreads}, t \in 2..MaxCandidates }

\* Dir-mode command lines that differ in the status-code filters.
FilterArgs ==
    { [BaseArgs EXCEPT !.include_raw = i, !.ignore_raw = g, !.n_threads = 1,
                          !.total = t] :
        i \in IncludeArgs, g \in IgnoreArgs, t \in 1..MaxCandidates }

\* Dir-mode command lines with invalid tokens in -s or in -S.
TokenArgs ==
    { [BaseArgs EXCEPT !.include_raw = l, !.n_threads = 1, !.total = 2] :
        l \in TokenLists }
    \cup { [BaseArgs EXCEPT !.ignore_raw = l, !.n_threads = 1, !.total = 2] :
        l \in TokenLists }

\* The domain of dns mode, which is read from -u, character by character:
\* b, io, ex.io.
DomainNames == { <<"b">>, <<"i", "o">>, <<"e", "x", ".", "i", "o">> }

\* Dns-mode command lines that differ in the domain.
DnsNameArgs ==
    { [BaseArgs EXCEPT !.mode = "dns", !.n_threads = 1, !.total = 2,
                          !.domain_name = d] : d \in DomainNames }

\* Fuzz-mode command lines, with and without --csrf-url / --csrf-regex; the
\* longest wordlists with it.
FuzzArgs ==
    { c \in { [BaseArgs EXCEPT !.mode = "fuzz", !.csrf_url = u,
                                 !.n_threads = MaxThreads, !.total = t] :
                u \in BOOLEAN, t \in 0..MaxCandidates } :
        c.csrf_url \/ c.total <= 2 }

\* Command lines that differ in the terminal they run on and in --no-banner
\* and --no-progress-bar, with a URL that parses and one that does not.
TerminalArgs ==
    { [BaseArgs EXCEPT !.mode = m, !.url = u, !.terminal = t, !.no_banner = b,
                          !.no_progress_bar = p, !.n_threads = 1, !.total = 2] :
        m \in Modes, u \in {"http", "unparsable"}, t \in Terminals,
        b \in BOOLEAN, p \in BOOLEAN }

Args ==
    StartupArgs \cup RunArgs \cup DupArgs \cup FilterArgs \cup TokenArgs
    \cup DnsNameArgs \cup FuzzArgs \cup TerminalArgs \cup OutputArgs

\* ------------------------------------------------- extract_common_args
\* A filter that gives the list up when one token is invalid.
FilterCodes_all_or_nothing(raw) ==
    IF \A i \in DOMAIN raw : raw[i] = "" \/ ValidStatusCode(raw[i])
    THEN SelectSeq(raw, LAMBDA s : s # "")
    ELSE <<>>

FilterCodes(raw) == SelectSeq(raw, LAMBDA s : s # "" /\ ValidStatusCode(s))

\* The warn! lines of the filter: one for each token that is not empty and
\* not a status code, in the order of the list.
Warnings(param, raw) ==
    LET bad == SelectSeq(raw, LAMBDA s : s # "" /\ ~ValidStatusCode(s))
    IN  [ i \in DOMAIN bad |-> [param |-> param, token |-> bad[i]] ]

\* The warn! lines of the terminal-size block.
TerminalWarnings(t) ==
    IF ~t.some THEN {"Unable to get terminal size"}
    ELSE IF t.cols < MinColsProgressBar
    THEN { "Your terminal is " \o ToString(t.cols) \o " cols wide and "
               \o ToString(t.lines) \o " lines tall",
           "Disabling progress bar, minimum cols: 104" }
    ELSE {}

\* CommonArgs.no_banner: --no-banner, or no terminal, or a terminal too
\* narrow for the banner.
no_banner ==
    \/ cfg.no_banner
    \/ ~cfg.terminal.some
    \/ cfg.terminal.cols < MinColsBanner

\* CommonArgs.no_progress_bar: --no-progress-bar, or no terminal, or a
\* terminal too narrow for the bar.
no_progress_bar ==
    \/ cfg.no_progress_bar
    \/ ~cfg.terminal.some
    \/ cfg.terminal.cols < MinColsProgressBar

include_status_codes == FilterCodes(cfg.include_raw)

ignore_status_codes == FilterCodes(cfg.ignore_raw)

\* clap: include-string conflicts_with ignore-string.
ArgsConflict_never(c) == FALSE
ArgsConflict(c) == c.include_strings /\ c.ignore_strings

\* ----------------------------------------------------- startup checks
UrlError(c) ==
    /\ c.mode # "dns"
    /\ \/ ~UriParses(c.url)
       \/ SchemePart(c.url) \notin {"http", "https"}

RECURSIVE FoldAnd(_, _)
FoldAnd(flags, acc) ==
    IF flags = <<>> THEN acc ELSE FoldAnd(Tail(flags), acc /\ Head(flags))

AllWordlistsExist_first(paths) == paths[1]
AllWordlistsExist(paths) == FoldAnd(paths, TRUE)

\* ------------------------------------------------------------ candidates
\* The candidates built from the wordlist, each by the identity it probes
\* (url, domain, vhost). A wordlist may hold a word twice: with dup its last
\* word repeats its first.
Candidates(c) ==
    [ i \in 1..c.total |-> IF c.dup /\ i = c.total THEN 1 ELSE i ]

\* The words of the wordlist, character by character: a, www, mx; the word
\* a candidate of identity t is built from.
Words == << <<"a">>, <<"w", "w", "w">>, <<"m", "x">> >>

WordOf(t) == Words[((t - 1) % Len(Words)) + 1]

\* dns: the name a candidate carries, the word, a dot, the domain and the
\* trailing root-label separator.
DnsDomain(word, domain) == word \o <<".">> \o domain \o <<".">>

MsgDomain(msg) == DnsDomain(WordOf(msg.target), cfg.domain_name)

\* dns: the name on the OK line, &msg.domain[..msg.domain.len() - 3].
PrintedName(domain) == SubSeq(domain, 1, Len(domain) - 3)

\* ---------------------------------------------------- result processors
ResultProcessorConfig_swapped ==
    [include |-> ignore_status_codes, ignore |-> include_status_codes]
ResultProcessorConfig ==
    [include |-> include_status_codes, ignore |-> ignore_status_codes]

DirAccepts(rp, msg) ==
    \/ rp.include = <<>> /\ msg.status \notin Range(rp.ignore)
    \/ rp.include # <<>> /\ msg.status \in Range(rp.include)

\* The identity a result is known by: method+status+target in dir mode (the
\* method is one per run), the domain in dns mode, the vhost in vhost mode.
DirIdentity(msg) == <<msg.status, msg.target>>

TargetIdentity(msg) == msg.target

\* maybe_add_result's answer: the filter's verdict. A result whose identity is
\* already held is not pushed again, but stays eligible for display.
DirMaybeAdd(rp, res, msg) == DirAccepts(rp, msg)

DirResults_no_dedup(rp, res, msg) ==
    IF DirAccepts(rp, msg) THEN Append(res, msg) ELSE res
DirResults(rp, res, msg) ==
    IF /\ DirAccepts(rp, msg)
       /\ \A i \in DOMAIN res : DirIdentity(res[i]) # DirIdentity(msg)
    THEN Append(res, msg)
    ELSE res

DnsMaybeAdd(res, msg) == msg.status = TRUE

DnsResults(res, msg) ==
    IF /\ msg.status = TRUE
       /\ \A i \in DOMAIN res : TargetIdentity(res[i]) # TargetIdentity(msg)
    THEN Append(res, msg)
    ELSE res

VhostMaybeAdd(res, msg) == TRUE

VhostResults(res, msg) ==
    IF \A i \in DOMAIN res : TargetIdentity(res[i]) # TargetIdentity(msg)
    THEN Append(res, msg)
    ELSE res

\* ------------------------------------------------------------- outcomes
\* id is the candidate's position in the sequence, target its identity.
DirOutcomes(i) ==
    { [id |-> i, target |-> Candidates(cfg)[i], error |-> FALSE, status |-> s,
       ignored |-> FALSE] : s \in {"200", "404"} }
    \cup { [id |-> i, target |-> Candidates(cfg)[i], error |-> TRUE,
             status |-> "error", ignored |-> FALSE] }

DnsOutcomes(i) ==
    { [id |-> i, target |-> Candidates(cfg)[i], error |-> ~r, status |-> r,
       ignored |-> FALSE] : r \in BOOLEAN }

VhostOutcomes(i) ==
    { [id |-> i, target |-> Candidates(cfg)[i], error |-> FALSE,
       status |-> "200", ignored |-> g] : g \in BOOLEAN }
    \cup { [id |-> i, target |-> Candidates(cfg)[i], error |-> TRUE,
             status |-> "error", ignored |-> FALSE] }

Outcomes(mode, i) ==
    IF mode \in {"dir", "fuzz"} THEN DirOutcomes(i)
    ELSE IF mode = "dns" THEN DnsOutcomes(i)
    ELSE VhostOutcomes(i)

\* ----------------------------------------------------------------- Init
Init ==
    /\ cfg \in Args
    /\ pc = "start"
    /\ exit_status = -1
    /\ logged = {}
    /\ warned = <<>>
    /\ banner_printed = <<>>
    /\ current_numbers_of_request = 0
    /\ seconds = 0
    /\ bar_pos = 0
    /\ bar_msg = [kind |-> "unset", rate |-> 0]
    /\ last_msg = NoMsg
    /\ was_added = FALSE
    /\ evaluated = FALSE
    /\ received = 0
    /\ arrivals = <<>>
    /\ csrf_token = "none"
    /\ csrf_fetches = 0
    /\ probe_tokens = {}
    /\ results = <<>>
    /\ printed = <<>>
    /\ dns_names = <<>>
    /\ saved = <<>>
    /\ loop_exit = "none"
    /\ pending_at_stop = {}
    /\ tx = "none"
    /\ next_idx = 1
    /\ inflight = {}
    /\ chan = <<>>

\* -------------------------------------------------------------- startup
UNCHANGED_run ==
    UNCHANGED << cfg, csrf_token, csrf_fetches, probe_tokens, current_numbers_of_request, seconds, bar_pos, bar_msg,
                 last_msg, was_added, evaluated, received, arrivals, results,
                 printed, dns_names, saved, loop_exit, pending_at_stop, next_idx,
                 inflight, chan >>

\* get_matches: clap refuses conflicting arguments and exits.
ClapConflict ==
    /\ pc = "start"
    /\ ArgsConflict(cfg)
    /\ pc' = "exit"
    /\ exit_status' = 1
    /\ logged' = logged \cup {"clap: argument conflict"}
    /\ UNCHANGED warned
    /\ UNCHANGED << banner_printed, tx >>
    /\ UNCHANGED_run

\* get_matches and extract_common_args: the status-code filters with their
\* warnings, then the terminal-size block with its own.
GetMatches ==
    /\ pc = "start"
    /\ ~ArgsConflict(cfg)
    /\ warned' = Warnings("-s", cfg.include_raw) \o Warnings("-S", cfg.ignore_raw)
    /\ logged' = logged \cup TerminalWarnings(cfg.terminal)
    /\ pc' = "check_url"
    /\ UNCHANGED << exit_status, banner_printed, tx >>
    /\ UNCHANGED_run

CheckUrlFail ==
    /\ pc = "check_url"
    /\ UrlError(cfg)
    /\ logged' = logged \cup {"Invalid URL"}
    /\ UNCHANGED warned
    /\ pc' = "exit"
    /\ exit_status' = 0
    /\ UNCHANGED << banner_printed, tx >>
    /\ UNCHANGED_run

CheckUrlOk ==
    /\ pc = "check_url"
    /\ ~UrlError(cfg)
    /\ pc' = "check_wordlists"
    /\ UNCHANGED << exit_status, logged, warned, banner_printed, tx >>
    /\ UNCHANGED_run

CheckWordlistsFail ==
    /\ pc = "check_wordlists"
    /\ ~AllWordlistsExist(cfg.wordlist_paths)
    /\ logged' = logged \cup {"Specified wordlist does not exist"}
    /\ UNCHANGED warned
    /\ pc' = "exit"
    /\ exit_status' = 0
    /\ UNCHANGED << banner_printed, tx >>
    /\ UNCHANGED_run

\* The banner block: the copyright line, the art banner unless no_banner,
\* the configuration and the starting time.
BannerLines ==
    IF no_banner THEN <<"copyright", "configuration", "starting_time">>
    ELSE <<"copyright", "generate", "configuration", "starting_time">>

\* All wordlists exist: the banner lines are printed and the mode is matched.
Banner ==
    /\ pc = "check_wordlists"
    /\ AllWordlistsExist(cfg.wordlist_paths)
    /\ banner_printed' = BannerLines
    /\ pc' = "mode"
    /\ UNCHANGED << exit_status, logged, warned, tx >>
    /\ UNCHANGED_run

VhostNoDomain ==
    /\ pc = "mode"
    /\ cfg.mode = "vhost"
    /\ ~cfg.domain
    /\ logged' = logged \cup {"domain not specified (-d)"}
    /\ UNCHANGED warned
    /\ pc' = "exit"
    /\ exit_status' = 0
    /\ UNCHANGED << banner_printed, tx >>
    /\ UNCHANGED_run

VhostNoIgnoreStrings ==
    /\ pc = "mode"
    /\ cfg.mode = "vhost"
    /\ cfg.domain
    /\ ~cfg.ignore_strings
    /\ logged' = logged \cup {"ignore_strings not specified (-x)"}
    /\ UNCHANGED warned
    /\ pc' = "exit"
    /\ exit_status' = 0
    /\ UNCHANGED << banner_printed, tx >>
    /\ UNCHANGED_run

\* The candidates are built, the channel and the bar are made, the producer
\* thread is spawned.
Spawn ==
    /\ pc = "mode"
    /\ cfg.mode \in Modes
    /\ cfg.mode = "vhost" => (cfg.domain /\ cfg.ignore_strings)
    /\ tx' = "open"
    /\ pc' = "loop"
    /\ UNCHANGED << exit_status, logged, warned, banner_printed >>
    /\ UNCHANGED_run

\* ------------------------------------------------------------- fuzz mode
\* What the GET to the CSRF url can come to: the request fails, the body does
\* not match the pattern, or the body matches and holds a token.
CsrfResponses == {"fetch error", "no match", "abc123", "def456"}

\* The first capture group of the pattern in the body, "none" without one.
CsrfExtract(response) ==
    IF response \in {"fetch error", "no match"} THEN "none" ELSE response

\* FuzzBuster { .., csrf_url, .. }: the --csrf-url of the command line.
CsrfUrl_dropped == FALSE
CsrfUrl == cfg.csrf_url

\* fuzzbuster.run() with a CSRF url: one GET before the pool starts. Without
\* a token the run ends there.
FuzzFetchCsrf ==
    /\ pc = "mode"
    /\ cfg.mode = "fuzz"
    /\ CsrfUrl
    /\ csrf_fetches' = csrf_fetches + 1
    /\ \E response \in CsrfResponses :
          IF CsrfExtract(response) = "none"
          THEN /\ logged' = logged \cup {"CSRF token not captured"}
               /\ pc' = "exit"
               /\ exit_status' = 1
               /\ UNCHANGED csrf_token
          ELSE /\ csrf_token' = CsrfExtract(response)
               /\ pc' = "fuzz"
               /\ UNCHANGED << logged, exit_status >>
    /\ UNCHANGED << cfg, warned, probe_tokens, banner_printed, tx,
                    current_numbers_of_request, seconds, bar_pos, bar_msg,
                    last_msg, was_added, evaluated, received, arrivals,
                    results, printed, dns_names, saved, loop_exit, pending_at_stop,
                    next_idx, inflight, chan >>

\* fuzzbuster.run(): the pool starts, with the token if one was to be had.
FuzzSpawn ==
    /\ \/ pc = "fuzz"
       \/ pc = "mode" /\ cfg.mode = "fuzz" /\ ~CsrfUrl
    /\ tx' = "open"
    /\ pc' = "loop"
    /\ UNCHANGED << exit_status, logged, warned, banner_printed >>
    /\ UNCHANGED_run

\* ---------------------------------------------------------- the producer
\* The spawned thread lives until main returns: the process then ends.
ProcessAlive == pc # "exit"

total_numbers_of_request == Len(Candidates(cfg))

\* DirConfig / DnsConfig / VhostConfig: n_threads is the -t argument.
ConfigThreads_one_more == cfg.n_threads + 1
ConfigThreads == cfg.n_threads

UNCHANGED_main ==
    UNCHANGED << cfg, csrf_token, csrf_fetches, pc, exit_status, logged, warned, banner_printed,
                 current_numbers_of_request, seconds, bar_pos, bar_msg,
                 last_msg, was_added, evaluated, received, arrivals, results,
                 printed, dns_names, saved, loop_exit, pending_at_stop >>

\* fuzz: what a probe substitutes for the CSRF placeholder, if a CSRF url is
\* configured.
ProbeToken == IF CsrfUrl THEN {csrf_token} ELSE {}

\* A free worker pulls the next candidate, in generator order.
Pull ==
    /\ tx = "open"
    /\ ProcessAlive
    /\ next_idx <= total_numbers_of_request
    /\ Cardinality(inflight) < ConfigThreads
    /\ inflight' = inflight \cup {next_idx}
    /\ next_idx' = next_idx + 1
    /\ probe_tokens' = probe_tokens \cup ProbeToken
    /\ UNCHANGED << tx, chan >>
    /\ UNCHANGED_main

\* A probe that sends its outcome and stays in flight, to send again.
Complete_resend ==
    /\ tx = "open"
    /\ ProcessAlive
    /\ Len(chan) < MaxCandidates
    /\ \E i \in inflight : \E o \in Outcomes(cfg.mode, i) :
          /\ chan' = Append(chan, o)
          /\ inflight' = inflight
    /\ UNCHANGED << tx, next_idx, probe_tokens >>
    /\ UNCHANGED_main

\* A probe finishes, in any order, and its one outcome is sent.
Complete ==
    /\ tx = "open"
    /\ ProcessAlive
    /\ \E i \in inflight : \E o \in Outcomes(cfg.mode, i) :
          /\ chan' = Append(chan, o)
          /\ inflight' = inflight \ {i}
    /\ UNCHANGED << tx, next_idx, probe_tokens >>
    /\ UNCHANGED_main

\* Every candidate was probed: the thread ends and its Sender is dropped.
Close ==
    /\ tx = "open"
    /\ ProcessAlive
    /\ next_idx > total_numbers_of_request
    /\ inflight = {}
    /\ tx' = "closed"
    /\ UNCHANGED << next_idx, inflight, chan, probe_tokens >>
    /\ UNCHANGED_main

\* The thread dies while setting up, before it pulls anything; the Sender is
\* dropped with nothing sent.
RunPanic ==
    /\ tx = "open"
    /\ ProcessAlive
    /\ next_idx = 1
    /\ total_numbers_of_request > 0
    /\ tx' = "closed"
    /\ UNCHANGED << next_idx, inflight, chan, probe_tokens >>
    /\ UNCHANGED_main

\* ----------------------------------------------------- the consumer loop
LoopCond_off_by_one == current_numbers_of_request + 1 < total_numbers_of_request
LoopCond == current_numbers_of_request # total_numbers_of_request

\* The whole seconds start_time.elapsed() can read, up to MaxSec. start_time
\* is a SystemTime, the wall clock, which can be set while the program runs:
\* a reading can be less than the one before it.
Elapsed == 0 .. MaxSec

\* A label computed from the outcomes already received.
Throughput_received(n, s) ==
    IF s # 0 THEN [kind |-> "rate", rate |-> (n - 1) \div s]
    ELSE [kind |-> "warming up...", rate |-> 0]

Throughput(n, s) ==
    IF s # 0 THEN [kind |-> "rate", rate |-> n \div s]
    ELSE [kind |-> "warming up...", rate |-> 0]

\* bar.inc(1), and a bar advanced only from the second iteration on.
BarInc_late(pos) == IF current_numbers_of_request = 0 THEN pos ELSE pos + 1
BarInc(pos) == pos + 1

\* Top of one iteration, up to the blocking receive.
LoopIter ==
    /\ pc = "loop"
    /\ LoopCond
    /\ current_numbers_of_request' = current_numbers_of_request + 1
    /\ bar_pos' = BarInc(bar_pos)
    /\ \E s \in Elapsed :
          /\ seconds' = s
          /\ bar_msg' = Throughput(current_numbers_of_request + 1, s)
    /\ pc' = "recv"
    /\ UNCHANGED << cfg, csrf_token, csrf_fetches, probe_tokens, exit_status, logged, warned, banner_printed, last_msg,
                    was_added, evaluated, received, arrivals, results,
                    printed, dns_names, saved, loop_exit, pending_at_stop, tx, next_idx,
                    inflight, chan >>

\* Top of an iteration with the wall clock set back before start_time:
\* elapsed() is Err and unwrap() panics, after the counter and the bar were
\* advanced and before the label is set. The process ends with the status of
\* a panic; nothing of the run end is reached.
ElapsedPanic ==
    /\ pc = "loop"
    /\ cfg.mode \in Modes
    /\ LoopCond
    /\ current_numbers_of_request' = current_numbers_of_request + 1
    /\ bar_pos' = BarInc(bar_pos)
    /\ pc' = "exit"
    /\ exit_status' = 101
    /\ loop_exit' = "panic"
    /\ UNCHANGED << cfg, csrf_token, csrf_fetches, probe_tokens, logged, warned, banner_printed,
                    seconds, bar_msg, last_msg, was_added, evaluated, received,
                    arrivals, results, printed, dns_names, saved, pending_at_stop,
                    tx, next_idx, inflight, chan >>

LoopExit ==
    /\ pc = "loop"
    /\ ~LoopCond
    /\ pc' = "finish"
    /\ loop_exit' = "natural"
    /\ UNCHANGED << cfg, csrf_token, csrf_fetches, probe_tokens, exit_status, logged, warned, banner_printed,
                    current_numbers_of_request, seconds, bar_pos, bar_msg,
                    last_msg, was_added, evaluated, received, arrivals,
                    results, printed, dns_names, saved, pending_at_stop, tx, next_idx,
                    inflight, chan >>

\* rx.recv() fails: every Sender is gone and nothing is queued.
RecvErr ==
    /\ pc = "recv"
    /\ chan = <<>>
    /\ tx = "closed"
    /\ logged' = logged \cup {"RecvError"}
    /\ UNCHANGED warned
    /\ pc' = "finish"
    /\ loop_exit' = "closed"
    /\ UNCHANGED << cfg, csrf_token, csrf_fetches, probe_tokens, exit_status, banner_printed,
                    current_numbers_of_request, seconds, bar_pos, bar_msg,
                    last_msg, was_added, evaluated, received, arrivals,
                    results, printed, dns_names, saved, pending_at_stop, tx, next_idx,
                    inflight, chan >>

Escalates_first_only(msg) == msg.error /\ current_numbers_of_request = 1
Escalates_always(msg) == msg.error
Escalates(msg) ==
    /\ msg.error
    /\ \/ current_numbers_of_request = 1
       \/ cfg.exit_on_connection_errors

\* An error arm that breaks without the warning.
ErrorLog_no_warning(msg) == IF msg.error THEN {"probe error"} ELSE {}

ErrorLog(msg) ==
    IF ~msg.error THEN {}
    ELSE IF Escalates(msg) THEN {"probe error", "Check connectivity to the target"}
    ELSE {"probe error"}

\* println / bar.println of one result line.
PrintLine_first(lines, msg) == <<msg>> \o lines
PrintLine(lines, msg) == Append(lines, msg)

\* The result lines by the way they were written: println! with
\* no_progress_bar, bar.println without.
println_lines == IF no_progress_bar THEN printed ELSE <<>>

bar_println_lines == IF no_progress_bar THEN <<>> ELSE printed

InFlight(queue) == inflight \cup { queue[i].id : i \in DOMAIN queue }

UNCHANGED_recv ==
    UNCHANGED << cfg, csrf_token, csrf_fetches, probe_tokens, exit_status, banner_printed, current_numbers_of_request,
                 seconds, bar_pos, bar_msg, saved, next_idx, inflight >>

\* What the break does to the spawned thread's Sender, and so to the
\* thread: nothing. Line 251 hands the thread tx, the candidates and the
\* config; main keeps no handle of it and sets no flag it reads.
BreakSignal_stops_producer(sender) == "closed"
BreakSignal(sender) == sender

\* The break of the error arm.
BreakOnError(msg) ==
    /\ pc' = "finish"
    /\ tx' = BreakSignal(tx)
    /\ loop_exit' = "error"
    /\ pending_at_stop' = InFlight(Tail(chan))
    /\ evaluated' = FALSE
    /\ was_added' = FALSE
    /\ UNCHANGED << results, printed, dns_names >>

\* dir: the rest of the iteration, from the receive on.
DirRecv ==
    /\ pc = "recv"
    /\ cfg.mode = "dir"
    /\ chan # <<>>
    /\ LET msg == Head(chan) IN
          /\ chan' = Tail(chan)
          /\ received' = received + 1
          /\ arrivals' = Append(arrivals, msg)
          /\ last_msg' = msg
          /\ logged' = logged \cup ErrorLog(msg)
          /\ UNCHANGED warned
          /\ IF Escalates(msg)
             THEN BreakOnError(msg)
             ELSE LET added == DirMaybeAdd(ResultProcessorConfig, results, msg) IN
                     /\ evaluated' = TRUE
                     /\ was_added' = added
                     /\ results' = DirResults(ResultProcessorConfig, results, msg)
                     /\ printed' = IF added THEN PrintLine(printed, msg) ELSE printed
                     /\ UNCHANGED dns_names
                     /\ pc' = "loop"
                     /\ UNCHANGED << loop_exit, pending_at_stop, tx >>
    /\ UNCHANGED_recv

\* fuzz: the consumer of fuzzbuster.run(), as the dir one.
FuzzRecv ==
    /\ pc = "recv"
    /\ cfg.mode = "fuzz"
    /\ chan # <<>>
    /\ LET msg == Head(chan) IN
          /\ chan' = Tail(chan)
          /\ received' = received + 1
          /\ arrivals' = Append(arrivals, msg)
          /\ last_msg' = msg
          /\ logged' = logged \cup ErrorLog(msg)
          /\ UNCHANGED warned
          /\ IF Escalates(msg)
             THEN BreakOnError(msg)
             ELSE LET added == DirMaybeAdd(ResultProcessorConfig, results, msg) IN
                     /\ evaluated' = TRUE
                     /\ was_added' = added
                     /\ results' = DirResults(ResultProcessorConfig, results, msg)
                     /\ printed' = IF added THEN PrintLine(printed, msg) ELSE printed
                     /\ UNCHANGED dns_names
                     /\ pc' = "loop"
                     /\ UNCHANGED << loop_exit, pending_at_stop, tx >>
    /\ UNCHANGED_recv

\* The dns loop with the error arm of the other two loops.
\* dns: `match msg.status`, the OK line and the addresses on true.
DnsPrints_always(msg) == TRUE
DnsPrints(msg) == msg.status = TRUE

DnsRecv_escalating ==
    /\ pc = "recv"
    /\ cfg.mode = "dns"
    /\ chan # <<>>
    /\ LET msg == Head(chan) IN
          /\ chan' = Tail(chan)
          /\ received' = received + 1
          /\ arrivals' = Append(arrivals, msg)
          /\ last_msg' = msg
          /\ logged' = logged \cup ErrorLog(msg)
          /\ UNCHANGED warned
          /\ IF Escalates(msg)
             THEN BreakOnError(msg)
             ELSE LET added == DnsMaybeAdd(results, msg) IN
                     /\ evaluated' = TRUE
                     /\ was_added' = added
                     /\ results' = DnsResults(results, msg)
                     /\ printed' = IF DnsPrints(msg) THEN PrintLine(printed, msg) ELSE printed
                     /\ dns_names' = IF DnsPrints(msg)
                                     THEN Append(dns_names, PrintedName(MsgDomain(msg)))
                                     ELSE dns_names
                     /\ pc' = "loop"
                     /\ UNCHANGED << loop_exit, pending_at_stop, tx >>
    /\ UNCHANGED_recv

\* dns: the rest of the iteration; the loop has no error arm.
DnsRecv ==
    /\ pc = "recv"
    /\ cfg.mode = "dns"
    /\ chan # <<>>
    /\ LET msg == Head(chan)
           added == DnsMaybeAdd(results, msg) IN
          /\ chan' = Tail(chan)
          /\ received' = received + 1
          /\ arrivals' = Append(arrivals, msg)
          /\ last_msg' = msg
          /\ evaluated' = TRUE
          /\ was_added' = added
          /\ results' = DnsResults(results, msg)
          /\ printed' = IF DnsPrints(msg) THEN PrintLine(printed, msg) ELSE printed
          /\ dns_names' = IF DnsPrints(msg)
                          THEN Append(dns_names, PrintedName(MsgDomain(msg)))
                          ELSE dns_names
          /\ pc' = "loop"
    /\ UNCHANGED << logged, warned, loop_exit, pending_at_stop, tx >>
    /\ UNCHANGED_recv

\* vhost: `if !msg.ignored`, the block that hands the outcome to the result
\* processor and prints its line.
VhostHands_always(msg) == TRUE
VhostHands(msg) == ~msg.ignored

\* vhost: the rest of the iteration, from the receive on.
VhostRecv ==
    /\ pc = "recv"
    /\ cfg.mode = "vhost"
    /\ chan # <<>>
    /\ LET msg == Head(chan) IN
          /\ chan' = Tail(chan)
          /\ received' = received + 1
          /\ arrivals' = Append(arrivals, msg)
          /\ last_msg' = msg
          /\ logged' = logged \cup ErrorLog(msg)
          /\ UNCHANGED warned
          /\ IF Escalates(msg)
             THEN BreakOnError(msg)
             ELSE LET added == VhostHands(msg) /\ VhostMaybeAdd(results, msg) IN
                     /\ evaluated' = VhostHands(msg)
                     /\ was_added' = added
                     /\ results' = IF VhostHands(msg) THEN VhostResults(results, msg)
                                    ELSE results
                     /\ printed' = IF VhostHands(msg) THEN PrintLine(printed, msg)
                                    ELSE printed
                     /\ UNCHANGED dns_names
                     /\ pc' = "loop"
                     /\ UNCHANGED << loop_exit, pending_at_stop, tx >>
    /\ UNCHANGED_recv

\* -------------------------------------------------------------- run end
UNCHANGED_end ==
    UNCHANGED << cfg, csrf_token, csrf_fetches, probe_tokens, logged, warned, banner_printed, current_numbers_of_request,
                 seconds, bar_msg, last_msg, was_added, evaluated,
                 arrivals, results, printed, dns_names, loop_exit, pending_at_stop, tx,
                 next_idx, inflight >>

\* The length !0, every bit of the u64 set, that ProgressBar::hidden() gives
\* its bar in the indicatif releases that have a length for it. The value is
\* beyond the integers of the checker and is written as the signed reading of
\* the same bits.
HiddenLength == -1

\* bar.finish() on the bar of ProgressBar::hidden(). indicatif is a dependency
\* and its release is not fixed by the source: in the releases where the
\* hidden bar has the length !0 the position is set to it, in those where it
\* has no length the position stays.
HiddenFinish(pos) == {pos, HiddenLength}

\* bar.finish(): the positions the bar can be left at. A drawn bar, made with
\* the number of candidates as its length, is set to that length.
BarFinish(pos) ==
    IF no_progress_bar THEN HiddenFinish(pos) ELSE {total_numbers_of_request}

\* A run end that first receives what is still queued.
Finish_draining ==
    /\ pc = "finish"
    /\ pc' = "save"
    /\ bar_pos' \in BarFinish(bar_pos)
    /\ received' = received + Len(chan)
    /\ chan' = <<>>
    /\ UNCHANGED << exit_status, saved >>
    /\ UNCHANGED_end

\* bar.finish() and the ending time.
Finish ==
    /\ pc = "finish"
    /\ pc' = "save"
    /\ bar_pos' \in BarFinish(bar_pos)
    /\ UNCHANGED << exit_status, saved, received, chan >>
    /\ UNCHANGED_end

\* A run end that saves whether or not an output path was given.
SaveResults_unconditional ==
    /\ pc = "save"
    /\ saved' = Append(saved, results)
    /\ pc' = "exit"
    /\ exit_status' = 0
    /\ UNCHANGED << received, chan, bar_pos >>
    /\ UNCHANGED_end

\* An output path is configured: the results are saved, main returns.
SaveResults ==
    /\ pc = "save"
    /\ cfg.output
    /\ saved' = Append(saved, results)
    /\ pc' = "exit"
    /\ exit_status' = 0
    /\ UNCHANGED << received, chan, bar_pos >>
    /\ UNCHANGED_end

\* No output path: main returns.
Return ==
    /\ pc = "save"
    /\ ~cfg.output
    /\ pc' = "exit"
    /\ exit_status' = 0
    /\ UNCHANGED << saved, received, chan, bar_pos >>
    /\ UNCHANGED_end

\* ---------------------------------------------------------------- Next
Next ==
    \/ ClapConflict
    \/ GetMatches
    \/ CheckUrlFail
    \/ CheckUrlOk
    \/ CheckWordlistsFail
    \/ Banner
    \/ VhostNoDomain
    \/ VhostNoIgnoreStrings
    \/ Spawn
    \/ FuzzFetchCsrf
    \/ FuzzSpawn
    \/ Pull
    \/ Complete
    \/ Close
    \/ RunPanic
    \/ LoopIter
    \/ ElapsedPanic
    \/ LoopExit
    \/ RecvErr
    \/ DirRecv
    \/ FuzzRecv
    \/ DnsRecv
    \/ VhostRecv
    \/ Finish
    \/ SaveResults
    \/ Return

Spec == Init /\ [][Next]_vars

\* The steps of the main thread from the spawn on, and those of the spawned
\* thread and its workers that end a probe or the thread.
MainStep ==
    \/ LoopIter
    \/ ElapsedPanic
    \/ LoopExit
    \/ RecvErr
    \/ DirRecv
    \/ FuzzRecv
    \/ DnsRecv
    \/ VhostRecv

ProducerStep ==
    \/ Pull
    \/ Complete
    \/ Close

\* The main thread is scheduled while it can take a step; every worker ends
\* its probe and the spawned thread ends when the candidates are used up.
\* The command lines termination is checked for: every mode, every number of
\* candidates with one thread and all but the longest wordlist with the most,
\* with and without -K; an output file only with short wordlists; every
\* terminal; the filters left at their defaults.
LiveArgs ==
    StartupArgs \cup TerminalArgs
    \cup { c \in RunArgs \cup FuzzArgs : c.n_threads = 1 \/ c.total < MaxCandidates }
    \cup { c \in OutputArgs : c.total <= 1 }

FairInit == Init /\ cfg \in LiveArgs

FairSpec ==
    FairInit /\ [][Next]_vars /\ WF_vars(MainStep) /\ WF_vars(ProducerStep)

\* ======================================================== properties
InSeq(q, m) == \E i \in DOMAIN q : q[i] = m

\* The results hold an entry of msg's identity.
HeldDir(q, m) == \E i \in DOMAIN q : DirIdentity(q[i]) = DirIdentity(m)

HeldTarget(q, m) == \E i \in DOMAIN q : TargetIdentity(q[i]) = TargetIdentity(m)

\* Candidates whose outcome the consumer has received.
ReceivedIds == (1..(next_idx - 1)) \ InFlight(chan)

ExitOnError == cfg.exit_on_connection_errors

\* A fatal startup error, in the words of the specification.
FatalStartupError ==
    \/ cfg.mode # "dns" /\ cfg.url \notin {"http", "https"}
    \/ \E i \in DOMAIN cfg.wordlist_paths : ~cfg.wordlist_paths[i]
    \/ cfg.mode = "vhost" /\ (~cfg.domain \/ ~cfg.ignore_strings)

\* The receive loop is behind: main left it and is at the run end or has
\* returned from it.
LoopEnded ==
    /\ pc \in {"finish", "save", "exit"}
    /\ loop_exit \in {"natural", "closed", "error"}

\* The process died in the loop on the failed clock read.
Panicked == pc = "exit" /\ loop_exit = "panic"

NothingDispatched ==
    /\ tx = "none"
    /\ next_idx = 1
    /\ inflight = {}
    /\ chan = <<>>

\* C1: in dir and vhost mode the loop is left by the error arm exactly when
\* the outcome last received carries an error and is the first outcome
\* received or exit-on-error is configured; any other errored outcome leaves
\* the loop running.
C1_ErrorStopRule ==
    cfg.mode \in {"dir", "vhost"} =>
        ( loop_exit = "error"
          <=> (last_msg.error /\ (received = 1 \/ ExitOnError)) )

\* C1 witness: an errored outcome was received second with the option off and
\* the loop went on to its next receive.
C1_Witness ==
    /\ cfg.mode \in {"dir", "vhost"}
    /\ ~ExitOnError
    /\ last_msg.error
    /\ received = 2
    /\ current_numbers_of_request = 3
    /\ pc = "recv"

\* C2 as stated: in dns mode an errored outcome that is the first received,
\* or any errored outcome under exit-on-error, stops the consumer.
C2_Original ==
    (cfg.mode = "dns" /\ last_msg.error /\ (received = 1 \/ ExitOnError))
        => loop_exit = "error"

\* C2 amended: in dns mode no outcome stops the consumer: the loop is never
\* left by an error arm, whatever the outcome's position and the option; a
\* run that received a failed outcome and got past the loop received every
\* outcome. (The process can still die at the top of a later iteration, on
\* the clock read.)
C2_DnsNeverStopsOnError ==
    cfg.mode = "dns" =>
        /\ loop_exit # "error"
        /\ (last_msg.error /\ LoopEnded)
              => (loop_exit = "natural" /\ received = total_numbers_of_request)
        /\ (last_msg.error /\ pc = "exit") => (LoopEnded \/ Panicked)

\* C2 witness: dns mode, exit-on-error configured, the first outcome received
\* is a failure and the loop is back at its top with more to receive.
C2_Witness ==
    /\ cfg.mode = "dns"
    /\ ExitOnError
    /\ last_msg.error
    /\ received = 1
    /\ pc = "loop"
    /\ received < total_numbers_of_request

\* C3: when the loop ends without an error break and without the channel
\* closing under it, the outcomes received number the candidates generated.
\* (A process that died in the loop on the clock read never ended the loop.)
C3_ReceivedEqualsGenerated ==
    (LoopEnded /\ loop_exit \notin {"error", "closed"})
        => received = total_numbers_of_request

\* C3 witness: a dns run of at least two candidates ended with all received.
C3_Witness ==
    /\ cfg.mode = "dns"
    /\ pc = "exit"
    /\ loop_exit = "natural"
    /\ total_numbers_of_request >= 2
    /\ received = total_numbers_of_request

\* C4 as stated: once the run has ended after an error break, every outcome
\* that was in flight at the break has been received.
C4_Original ==
    (loop_exit = "error" /\ pc \in {"save", "exit"})
        => pending_at_stop \subseteq ReceivedIds

\* C4 amended: after an error break the consumer receives nothing more: no
\* outcome in flight at the break is ever received, up to and past the save.
C4_NoDrainAfterStop ==
    loop_exit = "error" =>
        /\ pending_at_stop \cap ReceivedIds = {}
        /\ Cardinality(ReceivedIds) = received

\* C4 witness: the run ended after an error break, the results were saved,
\* and outcomes in flight at the break were left unreceived.
C4_Witness ==
    /\ pc = "exit"
    /\ loop_exit = "error"
    /\ saved # <<>>
    /\ pending_at_stop # {}
    /\ pending_at_stop \cap ReceivedIds = {}

\* C5 as stated: once the consumer has stopped on an error the producer pulls
\* no further candidate.
C5_Original == [][loop_exit = "error" => next_idx' = next_idx]_vars

\* C5 amended: the break signals nothing to the producer. From the break to
\* main's return the spawned thread is where it would be without the break:
\* its Sender is gone only if it has probed every candidate, and while a
\* candidate and a free worker remain the next candidate can be pulled.
C5_BreakSignalsNothing ==
    (loop_exit = "error" /\ pc # "exit") =>
        /\ tx = "closed" =>
              (next_idx > total_numbers_of_request /\ inflight = {})
        /\ ( /\ next_idx <= total_numbers_of_request
             /\ Cardinality(inflight) < ConfigThreads ) => ENABLED Pull

\* C5 witness: main is past the break and has not returned; a candidate was
\* pulled after the break and its probe is in flight.
C5_Witness ==
    /\ pc = "save"
    /\ loop_exit = "error"
    /\ tx = "open"
    /\ inflight \ pending_at_stop # {}

\* C6 as stated: in dir and vhost mode an errored outcome is never handed to
\* the acceptance step, never among the results, never printed.
C6_Original ==
    cfg.mode \in {"dir", "vhost"} =>
        /\ last_msg.error => ~evaluated
        /\ \A i \in DOMAIN results : ~results[i].error
        /\ \A i \in DOMAIN printed : ~printed[i].error

\* C6 amended: an errored outcome is kept from the acceptance step, the
\* results and the output exactly when it escalates (first outcome, or
\* exit-on-error); otherwise it goes through the acceptance step like any
\* outcome: in dir mode it is added and printed iff its status passes the
\* filter, in vhost mode iff it is not ignored.
C6_ErroredOutcomeHandling ==
    (cfg.mode \in {"dir", "vhost"} /\ last_msg.error) =>
        IF received = 1 \/ ExitOnError
        THEN /\ ~evaluated
             /\ ~InSeq(results, last_msg)
             /\ ~InSeq(printed, last_msg)
        ELSE IF cfg.mode = "dir"
        THEN /\ evaluated
             /\ HeldDir(results, last_msg)
                   <=> DirAccepts([include |-> include_status_codes,
                                   ignore |-> ignore_status_codes], last_msg)
             /\ InSeq(printed, last_msg) <=> HeldDir(results, last_msg)
        ELSE /\ evaluated <=> ~last_msg.ignored
             /\ HeldTarget(results, last_msg) <=> ~last_msg.ignored
             /\ InSeq(printed, last_msg) <=> ~last_msg.ignored

\* C6 witness: dir mode, an errored outcome received second without
\* exit-on-error is among the results and the printed lines.
C6_Witness ==
    /\ cfg.mode = "dir"
    /\ ~ExitOnError
    /\ last_msg.error
    /\ received >= 2
    /\ InSeq(results, last_msg)
    /\ InSeq(printed, last_msg)

\* C7: in dir mode an error-free outcome is added and printed iff (the include
\* list is empty and its status is not excluded) or (the include list is not
\* empty and holds its status), the lists being those of the command line.
C7_PathFilter ==
    (cfg.mode = "dir" /\ last_msg # NoMsg /\ ~last_msg.error) =>
        LET inc == Range(include_status_codes)
            exc == Range(ignore_status_codes)
            accept == \/ inc = {} /\ last_msg.status \notin exc
                      \/ inc # {} /\ last_msg.status \in inc
        IN  /\ was_added <=> accept
            /\ HeldDir(results, last_msg) <=> accept
            /\ InSeq(printed, last_msg) <=> accept

\* C7 witness: include list {404} with the default exclude list {404}: a 404
\* outcome is accepted.
C7_Witness ==
    /\ cfg.mode = "dir"
    /\ include_status_codes = <<"404">>
    /\ ignore_status_codes = <<"404">>
    /\ ~last_msg.error
    /\ last_msg.status = "404"
    /\ was_added
    /\ InSeq(printed, last_msg)

\* C8 as stated: with include and exclude set on one axis (status codes, or
\* body strings) no candidate is dispatched.
C8_Original ==
    ( \/ include_status_codes # <<>> /\ ignore_status_codes # <<>>
      \/ cfg.include_strings /\ cfg.ignore_strings )
        => next_idx = 1

\* C8 amended: include and ignore body strings together are refused by the
\* argument parser: the program exits non-zero with nothing validated,
\* printed as banner or dispatched. (Include and exclude status codes
\* together are accepted.)
C8_StringConflictRejected ==
    (cfg.include_strings /\ cfg.ignore_strings) =>
        /\ pc \in {"start", "exit"}
        /\ NothingDispatched
        /\ banner_printed = <<>>
        /\ pc = "exit" => exit_status # 0

\* C8 witness: a command line with both body-string options has been refused.
C8_Witness ==
    /\ cfg.include_strings
    /\ cfg.ignore_strings
    /\ pc = "exit"
    /\ exit_status = 1
    /\ NothingDispatched

\* C9: with a fatal startup error no producer thread is started, no outcome
\* is received, no result accepted and nothing saved.
C9_FatalBeforeDispatch ==
    FatalStartupError =>
        /\ NothingDispatched
        /\ received = 0
        /\ current_numbers_of_request = 0
        /\ results = <<>>
        /\ printed = <<>>
        /\ saved = <<>>

\* C9 witness: the second of two wordlists is missing and main has returned
\* on it.
C9_Witness ==
    /\ cfg.wordlist_paths = <<TRUE, FALSE>>
    /\ "Specified wordlist does not exist" \in logged
    /\ pc = "exit"
    /\ NothingDispatched

\* C10 as stated: a fatal startup error ends the program with a message, a
\* non-zero exit status and no progress output.
C10_Original ==
    (FatalStartupError /\ pc = "exit") =>
        /\ logged # {}
        /\ exit_status # 0
        /\ bar_pos = 0


\* C11: the results are saved at most once, only when an output path is
\* configured and only after the receive loop has ended; what is saved is the
\* accumulated results, and no result is accepted after the save.
C11_SaveOnceAfterLoop ==
    /\ Len(saved) <= 1
    /\ saved # <<>> =>
          /\ cfg.output
          /\ pc = "exit"
          /\ LoopEnded
          /\ saved[1] = results
    /\ (pc = "exit" /\ LoopEnded /\ cfg.output) => Len(saved) = 1

\* A run with an output path that accepted two results and saved them.
C11_Witness ==
    /\ cfg.output
    /\ Len(saved) = 1
    /\ Len(saved[1]) >= 2
    /\ saved[1] = results

\* C12 as stated: with whole seconds elapsed, the label is the number of
\* outcomes already received divided by the seconds.
C12_Original ==
    (pc = "recv" /\ seconds > 0) =>
        /\ bar_msg.kind = "rate"
        /\ bar_msg.rate = received \div seconds

\* C12: the label is set at the top of an iteration, before the receive. With
\* whole seconds elapsed it is the iteration's number, one more than the
\* outcomes received so far, divided by the seconds (integer division); with
\* no whole second elapsed it is "warming up..." and nothing is divided.
C12_ThroughputLabel ==
    pc = "recv" =>
        /\ current_numbers_of_request = received + 1
        /\ IF seconds > 0
           THEN /\ bar_msg.kind = "rate"
                /\ bar_msg.rate = (received + 1) \div seconds
           ELSE bar_msg = [kind |-> "warming up...", rate |-> 0]

\* A label set after more than one whole second, where the division truncates.
C12_Witness ==
    /\ pc = "recv"
    /\ seconds > 1
    /\ received >= 2
    /\ bar_msg.kind = "rate"
    /\ bar_msg.rate = (received + 1) \div seconds
    /\ bar_msg.rate * seconds # received + 1


\* C13 as stated: what the run holds after the loop tells the endings apart.
\* Main holds the counter and the total (the loop condition), the results and
\* the configuration; the loop condition is false after a natural end, so it
\* would have to be true after a cancellation, and a cancellation on the first
\* outcome would have to differ from one under exit-on-connection-errors.
C13_Original ==
    LoopEnded =>
        /\ loop_exit = "error" => LoopCond
        /\ loop_exit = "error" =>
              ~(current_numbers_of_request = 1 /\ cfg.exit_on_connection_errors)

\* C13: main keeps no record of why the loop ended; the endings differ in
\* what was logged. The break of the error arm, one arm for the first-outcome
\* error and for exit-on-connection-errors, has logged "Check connectivity to
\* the target"; a closed channel has logged the RecvError; a natural end has
\* logged neither and leaves the loop condition false.
C13_EndingsByLog ==
    LoopEnded =>
        /\ loop_exit = "error" <=> "Check connectivity to the target" \in logged
        /\ loop_exit = "closed" <=> "RecvError" \in logged
        /\ loop_exit = "natural" => ~LoopCond
        /\ loop_exit = "error" =>
              /\ last_msg.error
              /\ current_numbers_of_request = 1 \/ cfg.exit_on_connection_errors

\* A cancelled run whose counter, total and results are those of a natural
\* run: the error came on the last of two candidates.
C13_Witness ==
    /\ LoopEnded
    /\ loop_exit = "error"
    /\ total_numbers_of_request = 2
    /\ ~LoopCond
    /\ results = <<>>
    /\ "Check connectivity to the target" \in logged

\* How many outcomes of candidate i the sequence q holds.
OutcomesOf(q, i) == Cardinality({ k \in DOMAIN q : q[k].id = i })

\* The outcomes sent so far: those received and those still queued.
Sent == arrivals \o chan

\* C14 as stated, for the cancelled run: once main has returned from a run
\* stopped by the error arm, every candidate that was pulled has produced its
\* one outcome.
C14_Original ==
    (pc = "exit" /\ loop_exit = "error") =>
        \A i \in 1..(next_idx - 1) : OutcomesOf(Sent, i) = 1

\* C14: candidates are pulled in sequence order, each once; a pulled candidate
\* is either still in flight with nothing sent or has sent exactly one
\* outcome, and a candidate not pulled has sent none. A run that ends
\* naturally has pulled every candidate and received exactly one outcome of
\* each. A cancelled run returns with the probes in flight unanswered.
C14_OneOutcomePerCandidate ==
    /\ next_idx \in 1..(total_numbers_of_request + 1)
    /\ inflight \subseteq 1..(next_idx - 1)
    /\ \A i \in 1..MaxCandidates + 1 :
          OutcomesOf(Sent, i) =
              IF i < next_idx /\ i \notin inflight THEN 1 ELSE 0
    /\ (LoopEnded /\ loop_exit = "natural") =>
          /\ next_idx = total_numbers_of_request + 1
          /\ inflight = {}
          /\ \A i \in 1..total_numbers_of_request : OutcomesOf(arrivals, i) = 1

\* A natural end of a run of three candidates, received out of order.
C14_Witness ==
    /\ LoopEnded
    /\ loop_exit = "natural"
    /\ total_numbers_of_request = 3
    /\ Len(arrivals) = 3
    /\ arrivals[1].id # 1

\* The identity key of a result in the running mode.
IdentityKey(msg) ==
    IF cfg.mode = "dir" THEN DirIdentity(msg) ELSE <<TargetIdentity(msg)>>

\* C15: no two entries of the results share an identity key (status and
\* target in dir mode, the method being one per run; the domain in dns mode;
\* the vhost in vhost mode), also when an identity is received twice.
C15_NoDuplicateIdentity ==
    \A i, j \in DOMAIN results :
        IdentityKey(results[i]) = IdentityKey(results[j]) => i = j

\* One identity received twice and accepted both times, held once.
C15_Witness ==
    /\ cfg.mode = "dir"
    /\ Len(results) = 1
    /\ \E i, j \in DOMAIN arrivals :
          /\ i < j
          /\ IdentityKey(arrivals[i]) = IdentityKey(arrivals[j])
          /\ IdentityKey(arrivals[i]) = IdentityKey(results[1])
          /\ DirAccepts(ResultProcessorConfig, arrivals[j])
    /\ Len(printed) = 2

IsResolved(msg) == msg.status = TRUE

\* C16: in dns mode an outcome gets its output line exactly when its status
\* is true, and the results hold resolved outcomes only, every resolved name
\* among them; a failed resolution leaves no line and no result, so one
\* resolved and one failed name give exactly one result.
C16_DnsAcceptsResolved ==
    cfg.mode = "dns" =>
        /\ printed = SelectSeq(arrivals, IsResolved)
        /\ \A i \in DOMAIN results :
              IsResolved(results[i]) /\ InSeq(arrivals, results[i])
        /\ \A i \in DOMAIN arrivals :
              IsResolved(arrivals[i]) => HeldTarget(results, arrivals[i])
        /\ \A i \in DOMAIN arrivals :
              (~HeldTarget(SelectSeq(arrivals, IsResolved), arrivals[i]))
                  => ~HeldTarget(results, arrivals[i])
        /\ ( /\ Len(arrivals) = 2
             /\ IsResolved(arrivals[1]) # IsResolved(arrivals[2])
             /\ TargetIdentity(arrivals[1]) # TargetIdentity(arrivals[2]) )
              => Len(results) = 1 /\ Len(printed) = 1

\* A dns run that received one failed and then one resolved name.
C16_Witness ==
    /\ cfg.mode = "dns"
    /\ Len(arrivals) = 2
    /\ ~IsResolved(arrivals[1])
    /\ IsResolved(arrivals[2])
    /\ results = << arrivals[2] >>
    /\ printed = << arrivals[2] >>

NotIgnored(msg) == ~msg.ignored

\* The outcomes the loop went on to handle: all those received, but the one
\* the error arm stopped on.
Handled ==
    IF loop_exit = "error" THEN SubSeq(arrivals, 1, Len(arrivals) - 1)
    ELSE arrivals

\* C17 as stated: in vhost mode every received outcome is printed exactly
\* when its ignored flag is false.
C17_Original ==
    (cfg.mode = "vhost" /\ last_msg # NoMsg) =>
        (InSeq(printed, last_msg) <=> ~last_msg.ignored)

\* C17: in vhost mode an outcome the loop does not stop on is handed to the
\* result processor and printed exactly when its ignored flag is false; an
\* ignored outcome is never among the results nor among the printed lines.
C17_VhostAcceptsNotIgnored ==
    cfg.mode = "vhost" =>
        /\ printed = SelectSeq(Handled, NotIgnored)
        /\ \A i \in DOMAIN results :
              NotIgnored(results[i]) /\ InSeq(Handled, results[i])
        /\ \A i \in DOMAIN Handled :
              NotIgnored(Handled[i]) => HeldTarget(results, Handled[i])
        /\ (last_msg # NoMsg /\ loop_exit # "error") =>
              /\ evaluated <=> ~last_msg.ignored
              /\ was_added <=> ~last_msg.ignored

\* A vhost run that received an ignored outcome and then one not ignored.
C17_Witness ==
    /\ cfg.mode = "vhost"
    /\ Len(arrivals) = 2
    /\ arrivals[1].ignored
    /\ ~arrivals[2].ignored
    /\ ~arrivals[2].error
    /\ results = << arrivals[2] >>
    /\ printed = << arrivals[2] >>

\* a is b with some of its entries left out, the others in b's order.
RECURSIVE IsSubseq(_, _)
IsSubseq(a, b) ==
    IF a = <<>> THEN TRUE
    ELSE IF b = <<>> THEN FALSE
    ELSE IF Head(a) = Head(b) THEN IsSubseq(Tail(a), Tail(b))
    ELSE IsSubseq(a, Tail(b))

\* The outcomes that get a line: the accepted ones in dir mode, the resolved
\* ones in dns mode, those not ignored in vhost mode.
GetsLine(msg) ==
    IF cfg.mode = "dir" THEN DirAccepts(ResultProcessorConfig, msg)
    ELSE IF cfg.mode = "dns" THEN IsResolved(msg)
    ELSE NotIgnored(msg)

\* C18: the results and the printed lines are each a subsequence of the
\* outcomes in the order received, whatever the dispatch order; and whenever
\* main is about to receive, the line of every outcome handled so far that
\* gets one is already printed.
C18_ArrivalOrder ==
    /\ IsSubseq(results, arrivals)
    /\ IsSubseq(printed, arrivals)
    /\ (cfg.mode \in {"dir", "dns", "vhost"} /\ pc \in {"loop", "recv"}) =>
          printed = SelectSeq(arrivals, GetsLine)

\* Two outcomes received against the dispatch order, both accepted and
\* printed, in the order received.
C18_Witness ==
    /\ Len(arrivals) >= 2
    /\ arrivals[1].id > arrivals[2].id
    /\ Len(printed) >= 2
    /\ printed[1] = arrivals[1]
    /\ printed[2] = arrivals[2]
    /\ results = printed
    /\ pc = "recv"

\* C19: the probes in flight, pulled and not yet reported on the channel, are
\* never more than the number of threads of the command line.
C19_InFlightBound ==
    /\ cfg.n_threads \in (1..MaxThreads) \cup {DefaultThreads}
    /\ Cardinality(inflight) <= cfg.n_threads

\* The pool is full while candidates are still waiting.
C19_Witness ==
    /\ cfg.n_threads = MaxThreads
    /\ Cardinality(inflight) = cfg.n_threads
    /\ next_idx <= total_numbers_of_request
    /\ tx = "open"

\* C20: in fuzz mode with a CSRF url the token is captured by one fetch that
\* is over before the first candidate is pulled; a fetch or a match that
\* fails leaves nothing dispatched, no probe ever carries an empty token; and
\* a captured token keeps its value to the end of the run.
C20_CsrfTokenOnce ==
    /\ [](cfg.csrf_url =>
            /\ csrf_fetches <= 1
            /\ ~NothingDispatched =>
                  /\ csrf_fetches = 1
                  /\ csrf_token # "none"
            /\ "CSRF token not captured" \in logged =>
                  /\ NothingDispatched
                  /\ csrf_token = "none"
            /\ next_idx > 1 => probe_tokens = {csrf_token})
    /\ [][csrf_token # "none" => csrf_token' = csrf_token]_vars

\* A fuzz run with a CSRF url that captured its token and has all its
\* probes answered, each sent with that token.
C20_Witness ==
    /\ cfg.mode = "fuzz"
    /\ cfg.csrf_url
    /\ csrf_fetches = 1
    /\ csrf_token = "abc123"
    /\ probe_tokens = {"abc123"}
    /\ Len(arrivals) >= 2
    /\ loop_exit = "natural"

\* The tokens of a list that are a status code, in the order of the list.
RECURSIVE ValidTokens(_)
ValidTokens(raw) ==
    IF raw = <<>> THEN <<>>
    ELSE IF Head(raw) \in {"200", "404"}
    THEN <<Head(raw)>> \o ValidTokens(Tail(raw))
    ELSE ValidTokens(Tail(raw))

\* The tokens of a list that are neither empty nor a status code.
RECURSIVE InvalidTokens(_)
InvalidTokens(raw) ==
    IF raw = <<>> THEN <<>>
    ELSE IF Head(raw) \notin {"", "200", "404"}
    THEN <<Head(raw)>> \o InvalidTokens(Tail(raw))
    ELSE InvalidTokens(Tail(raw))

\* C21: an invalid token in -s or -S is dropped alone, with one warning, and
\* the run is not ended for it: the list the result processor gets is the
\* valid tokens in their order, and a command line that is otherwise in
\* order goes on to the receive loop.
C21_InvalidTokensDropped ==
    /\ ResultProcessorConfig.include = ValidTokens(cfg.include_raw)
    /\ ResultProcessorConfig.ignore = ValidTokens(cfg.ignore_raw)
    /\ pc # "start" /\ ~ArgsConflict(cfg) =>
          /\ Len(warned) = Len(InvalidTokens(cfg.include_raw))
                             + Len(InvalidTokens(cfg.ignore_raw))
          /\ \A i \in DOMAIN warned :
                IF i <= Len(InvalidTokens(cfg.include_raw))
                THEN warned[i] = [param |-> "-s",
                                  token |-> InvalidTokens(cfg.include_raw)[i]]
                ELSE warned[i] =
                       [param |-> "-S",
                        token |-> InvalidTokens(cfg.ignore_raw)
                                    [i - Len(InvalidTokens(cfg.include_raw))]]
    /\ (warned # <<>> /\ pc = "exit") => loop_exit # "none"
    /\ (warned # <<>> /\ last_msg # NoMsg /\ ~last_msg.error) =>
          (InSeq(printed, last_msg) <=>
              LET inc == Range(ValidTokens(cfg.include_raw))
                  exc == Range(ValidTokens(cfg.ignore_raw))
              IN  \/ inc = {} /\ last_msg.status \notin exc
                  \/ inc # {} /\ last_msg.status \in inc)

\* -s 200,abc,404: one warning, for abc; the run went on with 200 and 404 and
\* accepted a 404.
C21_Witness ==
    /\ cfg.include_raw = <<"200", "abc", "404">>
    /\ warned = << [param |-> "-s", token |-> "abc"] >>
    /\ ResultProcessorConfig.include = <<"200", "404">>
    /\ \E i \in DOMAIN results : results[i].status = "404"
    /\ loop_exit = "natural"

\* C22 as stated: with every probe ending and the channel closed when the
\* spawned thread ends, main leaves the receive loop, by the total reached,
\* by the closed channel or by the error arm, and is then at the run end;
\* with no candidate it never waits on a receive.
C22_Original ==
    /\ [](total_numbers_of_request = 0 => pc # "recv" /\ received = 0)
    /\ (pc \in {"loop", "recv"}) ~> LoopEnded

\* What holds instead: main leaves the receive loop for the run end, or the
\* process dies in it on the clock read.
LoopTerminatesOrPanics ==
    /\ [](total_numbers_of_request = 0 => pc # "recv" /\ received = 0)
    /\ (pc \in {"loop", "recv"}) ~> (LoopEnded \/ Panicked)

\* bar.finish() has run: from then on the bar's position is no count of
\* bar.inc(1) calls.
BarFinished == pc \in {"save", "exit"} /\ LoopEnded

\* C23 as stated: up to bar.finish() the bar's position, the number of
\* bar.inc(1) calls, is the request counter, at most the total, at most the
\* number of outcomes received, and equal to that number once the loop has
\* ended by the closed channel or by the error arm.
C23_Original ==
    ~BarFinished =>
        /\ bar_pos = current_numbers_of_request
        /\ bar_pos <= total_numbers_of_request
        /\ bar_pos <= received
        /\ (LoopEnded /\ loop_exit \in {"closed", "error"}) => bar_pos = received

\* C23: up to bar.finish() the bar's position, the number of bar.inc(1)
\* calls, is the request counter and at most the total. The bar is advanced
\* before the receive, so while main waits on the receive the position is one
\* more than the outcomes received, and it stays one more when the receive
\* fails on the closed channel; after an outcome is received, the one the
\* error arm stops on too, it is the number received. The request counter
\* keeps that relation to the outcomes received to the end of the run. A
\* process that dies on the clock read has advanced the counter and the bar
\* for an outcome it never receives.
C23_ProgressAccounting ==
    /\ current_numbers_of_request <= total_numbers_of_request
    /\ current_numbers_of_request =
           received + (IF pc = "recv" \/ loop_exit \in {"closed", "panic"}
                       THEN 1 ELSE 0)
    /\ (LoopEnded /\ loop_exit \in {"natural", "error"}) =>
           current_numbers_of_request = received
    /\ (LoopEnded /\ loop_exit = "natural") =>
           current_numbers_of_request = total_numbers_of_request
    /\ ~BarFinished => bar_pos = current_numbers_of_request

\* The loop ended by the closed channel with the bar advanced for an outcome
\* that never came.
C23_Witness ==
    /\ pc = "finish"
    /\ loop_exit = "closed"
    /\ received = 0
    /\ bar_pos = 1
    /\ total_numbers_of_request > 1

\* C24: in dns mode the name on the OK line of a resolved outcome is the word,
\* a dot and the domain: the candidate's name without its trailing separator.
C24_Original ==
    cfg.mode = "dns" =>
        /\ Len(dns_names) = Len(printed)
        /\ \A i \in DOMAIN dns_names :
              dns_names[i] = WordOf(printed[i].target) \o <<".">> \o cfg.domain_name

====
